---- MODULE Spec2Model ----
(***************************************************************************)
(* fluent-zero (src/lib.rs): the two-tier message resolver over the static *)
(* cache and the bundle collection, and the ArcSwap register holding the   *)
(* active LocaleState.                                                     *)
(*                                                                         *)
(* The resolver's steps are separate actions, so that set_lang calls of    *)
(* other threads interleave with a lookup in flight.  The heap holds the   *)
(* Arc<LocaleState> objects; CURRENT_LANG and the guards are addresses.    *)
(***************************************************************************)
EXTENDS Naturals, Sequences, FiniteSets

VARIABLES
    cache,          \* the CacheStore: locale key -> message key -> CacheEntry
    bundles,        \* the BundleCollection: locale key -> bundle (its messages)
    threads,        \* the threads of the program
    heap,           \* address -> LocaleState, or Free
    CURRENT_LANG,   \* the ArcSwap: address of the active LocaleState
    lastLang,       \* history: the id given to the last set_lang that stored
    pc,             \* thread -> position
    fn,             \* thread -> the function it is in
    key,            \* thread -> the `key` parameter
    args,           \* thread -> the `args` parameter (None in lookup_static)
    guard,          \* thread -> address held by its arc_swap::Guard, 0 if none
    is_fallback,    \* thread -> the local `is_fallback`
    new_state,      \* thread -> the local `new_state` of set_lang
    result,         \* thread -> the returned Cow, None while running
    trace,          \* history: thread -> the collaborator calls of this call
    seen            \* history: thread -> lastLang when its guard was loaded

vars == <<cache, bundles, threads, heap, CURRENT_LANG, lastLang, pc, fn, key,
          args, guard, is_fallback, new_state, result, trace, seen>>

tables == <<cache, bundles, threads>>

-----------------------------------------------------------------------------
(* Bounds *)

\* Number of heap cells for LocaleState objects.
MaxAllocs == 3

Addr == 1..MaxAllocs

AllThreads == {"t1", "t2"}

Keys == {"greeting", "welcome"}

\* The locale keys that may appear in the tables.
TableLocales == {"en-US", "fr-FR"}

-----------------------------------------------------------------------------
(* Option and Cow *)

None == [some |-> FALSE]
Some(v) == [some |-> TRUE, val |-> v]

Borrowed(s) == [cow |-> "Borrowed", str |-> s]
Owned(s) == [cow |-> "Owned", str |-> s]

-----------------------------------------------------------------------------
(* LanguageIdentifier and LocaleState *)

LangId(l, r) == [language |-> l, region |-> r]

\* The identifiers callers pass to set_lang; "de" has no region subtag.
Langs == {LangId("en", "US"), LangId("fr", "FR"), LangId("de", "")}

\* LanguageIdentifier::to_string: the subtags joined by '-'.
to_string(id) ==
    IF id.region = "" THEN id.language ELSE id.language \o "-" \o id.region

LocaleState(id, k) == [id |-> id, key |-> k]

FALLBACK_LANG_KEY == "en-US"

Free == [free |-> TRUE]

-----------------------------------------------------------------------------
(* CacheEntry and CacheStore *)

Static(s) == [tag |-> "Static", s |-> s]
Dynamic == [tag |-> "Dynamic"]

\* The string a Static entry of (lang, k) carries in the generated table.
StaticText(lang, k) ==
    CASE lang = "en-US" /\ k = "greeting" -> "Hello"
      [] lang = "en-US" /\ k = "welcome"  -> "Welcome"
      [] lang = "fr-FR" /\ k = "greeting" -> "Bonjour"
      [] OTHER                            -> "Bienvenue"

\* CacheStore::get_entry: one lookup on lang, then one on key.
get_entry(c, lang, k) ==
    IF lang \in DOMAIN c
    THEN IF k \in DOMAIN c[lang] THEN Some(c[lang][k]) ELSE None
    ELSE None

-----------------------------------------------------------------------------
(* Bundles *)

Text(s) == [type |-> "Text", value |-> s]
Var(n) == [type |-> "Var", id |-> n]

\* BundleCollection::get_bundle
get_bundle(b, lang) == IF lang \in DOMAIN b THEN Some(b[lang]) ELSE None

\* FluentArgs: a set of <<name, value>> pairs.
ArgNames(a) == {p[1] : p \in a}
ArgValue(a, n) == (CHOOSE p \in a : p[1] = n)[2]

\* The elements of a pattern as format_pattern writes them; a reference to an
\* argument that was not supplied is written as the placeable's source and
\* counted as an error pushed to `errors`.  The Unicode isolation marks a
\* bundle may put around placeables are a setting of the bundle and left out.
RECURSIVE WritePattern(_, _)
WritePattern(pattern, a) ==
    IF pattern = <<>> THEN [str |-> "", errors |-> 0]
    ELSE LET e == Head(pattern)
             rest == WritePattern(Tail(pattern), a)
         IN IF e.type = "Text"
            THEN [str |-> e.value \o rest.str, errors |-> rest.errors]
            ELSE IF a.some /\ e.id \in ArgNames(a.val)
                 THEN [str |-> ArgValue(a.val, e.id) \o rest.str,
                       errors |-> rest.errors]
                 ELSE [str |-> "{$" \o e.id \o "}" \o rest.str,
                       errors |-> rest.errors + 1]

\* bundle.format_pattern(pattern, args, &mut errors): always a Cow; a pattern
\* of one text element is returned borrowed.
format_pattern(pattern, a) ==
    IF Len(pattern) = 1 /\ pattern[1].type = "Text"
    THEN Borrowed(pattern[1].value)
    ELSE Owned(WritePattern(pattern, a).str)

\* The number of errors format_pattern pushes.
FormatErrors(pattern, a) == WritePattern(pattern, a).errors

\* lookup_in_bundle: get_message(key)?, value()?, then Some(format_pattern(None)).
lookup_in_bundle(bundle, k) ==
    IF k \notin DOMAIN bundle THEN None
    ELSE IF ~bundle[k].value.some THEN None
    ELSE Some(format_pattern(bundle[k].value.val, None))

\* Variant: a formatting that pushed errors yields None.
format_in_bundle_strict(bundle, k, a) ==
    IF k \notin DOMAIN bundle THEN None
    ELSE IF ~bundle[k].value.some THEN None
    ELSE IF FormatErrors(bundle[k].value.val, Some(a)) > 0 THEN None
    ELSE Some(format_pattern(bundle[k].value.val, Some(a)))

\* format_in_bundle: the same with Some(args).
format_in_bundle(bundle, k, a) ==
    IF k \notin DOMAIN bundle THEN None
    ELSE IF ~bundle[k].value.some THEN None
    ELSE Some(format_pattern(bundle[k].value.val, Some(a)))

\* Variant: lookup_dynamic calls lookup_in_bundle and drops its arguments.
InBundleNoArgs(f, bundle, k, a) == lookup_in_bundle(bundle, k)

\* The bundle call of the function the thread is in.
InBundle(f, bundle, k, a) ==
    IF f = "lookup_static" THEN lookup_in_bundle(bundle, k)
    ELSE format_in_bundle(bundle, k, a.val)

-----------------------------------------------------------------------------
(* The tables an application can be built with *)

\* The pattern of message k in the resource of lang.
PatternOf(lang, k) ==
    IF k = "greeting"
    THEN <<Text(IF lang = "en-US" THEN "Hi" ELSE "Salut")>>
    ELSE <<Text(IF lang = "en-US" THEN "Welcome, " ELSE "Bienvenue, "),
           Var("name"), Text("!")>>

Messages(lang, k) == {[value |-> None], [value |-> Some(PatternOf(lang, k))]}

\* The entries a locale's inner map can hold: any of the keys, each Static
\* or Dynamic.
LocaleCaches(lang) ==
    UNION {{f \in [S -> {Static(StaticText(lang, k)) : k \in S} \cup {Dynamic}] :
              \A k \in S : f[k] \in {Static(StaticText(lang, k)), Dynamic}}
           : S \in SUBSET Keys}

\* The resources a locale's bundle can hold: any of the keys, each message
\* with or without a value.
LocaleBundles(lang) ==
    UNION {{f \in [S -> UNION {Messages(lang, k) : k \in S}] :
              \A k \in S : f[k] \in Messages(lang, k)}
           : S \in SUBSET Keys}

Caches ==
    UNION {{c \in [L -> UNION {LocaleCaches(l) : l \in L}] :
              \A l \in L : c[l] \in LocaleCaches(l)} : L \in SUBSET TableLocales}

Bundles ==
    UNION {{b \in [L -> UNION {LocaleBundles(l) : l \in L}] :
              \A l \in L : b[l] \in LocaleBundles(l)} : L \in SUBSET TableLocales}

FluentArgs == {{}, {<<"name", "Alice">>}}

-----------------------------------------------------------------------------
(* The heap of Arc<LocaleState> *)

\* The lowest free address: where Arc::new places the new state.
Alloc(h) == CHOOSE a \in Addr : h[a] = Free /\ \A b \in Addr : h[b] = Free => a <= b

\* An address nothing refers to any more is freed (the Arc's count is zero).
Collect(h, cur, g) ==
    [a \in Addr |-> IF a = cur \/ \E t \in DOMAIN g : g[t] = a THEN h[a] ELSE Free]

\* Variant: the new state is allocated but the pointer is not replaced.
StoreNoPublish(h, cur, a, st) ==
    [heap |-> [h EXCEPT ![a] = st], cur |-> cur]

\* Variant: the active state is overwritten where it is.
StoreInPlace(h, cur, a, st) ==
    [heap |-> [h EXCEPT ![cur] = st], cur |-> cur]

\* ArcSwap::store: the pointer is replaced in one atomic step.
Store(h, cur, a, st) ==
    [heap |-> [h EXCEPT ![a] = st], cur |-> a]

\* ArcSwap::load: the address of the active state.
Load(cur) == cur

\* Variant: the key is read through a new get_lang() at each use.
current_key_reload(t) == heap[Load(CURRENT_LANG)].key

\* `current_key`: a reference into the state the guard keeps alive.
current_key(t) == heap[guard[t]].key

-----------------------------------------------------------------------------
(* Initial state: CURRENT_LANG holds en-US (lines 66-72) *)

InitCommon ==
    /\ LET id == LangId("en", "US")
       IN /\ heap = [a \in Addr |->
                        IF a = 1 THEN LocaleState(id, to_string(id)) ELSE Free]
          /\ lastLang = id
    /\ CURRENT_LANG = 1
    /\ pc = [t \in threads |-> "idle"]
    /\ fn = [t \in threads |-> "none"]
    /\ key = [t \in threads |-> ""]
    /\ args = [t \in threads |-> None]
    /\ guard = [t \in threads |-> 0]
    /\ is_fallback = [t \in threads |-> FALSE]
    /\ new_state = [t \in threads |-> None]
    /\ result = [t \in threads |-> None]
    /\ trace = [t \in threads |-> <<>>]
    /\ seen = [t \in threads |-> None]

\* One thread over any tables.
Init ==
    /\ threads = {"t1"}
    /\ cache \in Caches
    /\ bundles \in Bundles
    /\ InitCommon

-----------------------------------------------------------------------------
(* set_lang (lines 85-89) *)

\* let key = lang.to_string(); let new_state = LocaleState { id: lang, key };
SetLangBuild(t, lang) ==
    /\ pc[t] = "idle"
    /\ pc' = [pc EXCEPT ![t] = "store"]
    /\ fn' = [fn EXCEPT ![t] = "set_lang"]
    /\ new_state' = [new_state EXCEPT ![t] = Some(LocaleState(lang, to_string(lang)))]
    /\ UNCHANGED <<tables, heap, CURRENT_LANG, lastLang, key, args, guard,
                   is_fallback, result, trace, seen>>

\* CURRENT_LANG.store(Arc::new(new_state));
SetLangStore(t) ==
    /\ pc[t] = "store"
    /\ \E a \in Addr : heap[a] = Free
    /\ LET s == Store(heap, CURRENT_LANG, Alloc(heap), new_state[t].val)
       IN /\ heap' = Collect(s.heap, s.cur, guard)
          /\ CURRENT_LANG' = s.cur
    /\ lastLang' = new_state[t].val.id
    /\ pc' = [pc EXCEPT ![t] = "idle"]
    /\ fn' = [fn EXCEPT ![t] = "none"]
    /\ new_state' = [new_state EXCEPT ![t] = None]
    /\ UNCHANGED <<tables, key, args, guard, is_fallback, result, trace, seen>>

-----------------------------------------------------------------------------
(* get_lang (lines 95-97) called on its own *)

GetLang(t) ==
    /\ pc[t] = "idle"
    /\ pc' = [pc EXCEPT ![t] = "held"]
    /\ fn' = [fn EXCEPT ![t] = "get_lang"]
    /\ guard' = [guard EXCEPT ![t] = Load(CURRENT_LANG)]
    /\ seen' = [seen EXCEPT ![t] = Some(lastLang)]
    /\ UNCHANGED <<tables, heap, CURRENT_LANG, lastLang, key, args,
                   is_fallback, new_state, result, trace>>

\* The caller drops the guard.
DropGuard(t) ==
    /\ pc[t] = "held"
    /\ pc' = [pc EXCEPT ![t] = "idle"]
    /\ fn' = [fn EXCEPT ![t] = "none"]
    /\ guard' = [guard EXCEPT ![t] = 0]
    /\ seen' = [seen EXCEPT ![t] = None]
    /\ heap' = Collect(heap, CURRENT_LANG, guard')
    /\ UNCHANGED <<tables, CURRENT_LANG, lastLang, key, args, is_fallback,
                   new_state, result, trace>>

-----------------------------------------------------------------------------
(* lookup_static (lines 164-201) and lookup_dynamic (lines 219-258) *)

Event(op, lang) == [op |-> op, lang |-> lang]
FormatEvent(lang, a) == [op |-> "format", lang |-> lang, args |-> a]

\* Entry, and the get_lang() of `let current_key = &get_lang().key;`
Begin(t, f, k, a) ==
    /\ pc[t] = "idle"
    /\ pc' = [pc EXCEPT ![t] = "cmp"]
    /\ fn' = [fn EXCEPT ![t] = f]
    /\ key' = [key EXCEPT ![t] = k]
    /\ args' = [args EXCEPT ![t] = a]
    /\ guard' = [guard EXCEPT ![t] = Load(CURRENT_LANG)]
    /\ seen' = [seen EXCEPT ![t] = Some(lastLang)]
    /\ UNCHANGED <<tables, heap, CURRENT_LANG, lastLang, is_fallback,
                   new_state, result, trace>>

CallLookupStatic(t, k) == Begin(t, "lookup_static", k, None)

CallLookupDynamic(t, k, a) == Begin(t, "lookup_dynamic", k, Some(a))

\* let is_fallback = current_key == FALLBACK_LANG_KEY;
Compare(t) ==
    /\ pc[t] = "cmp"
    /\ is_fallback' = [is_fallback EXCEPT ![t] = (current_key(t) = FALLBACK_LANG_KEY)]
    /\ trace' = [trace EXCEPT ![t] = Append(@, Event("cmp", current_key(t)))]
    /\ pc' = [pc EXCEPT ![t] = "tier1"]
    /\ UNCHANGED <<tables, heap, CURRENT_LANG, lastLang, fn, key, args, guard,
                   new_state, result, seen>>

\* Variant: the Static arm copies the string into an owned one.
StaticArmOwned(s) == Some(Owned(s))

\* CacheEntry::Static(s) => return Cow::Borrowed(s)
StaticArm(s) == Some(Borrowed(s))

\* Variant: every entry, Static or not, is sent to the bundle.
Tier1ArmFormatsStatic(entry) ==
    IF ~entry.some THEN "tier2" ELSE "tier1_bundle"

\* Where STEP 1 goes on the Option<CacheEntry>: no entry falls through, Static
\* returns, Dynamic goes to the bundle.
Tier1Arm(entry) ==
    IF ~entry.some THEN "tier2"
    ELSE IF entry.val.tag = "Static" THEN "done"
    ELSE "tier1_bundle"

\* STEP 1: cache.get_entry(current_key, key) and its Static arm.
Tier1Entry(t) ==
    /\ pc[t] = "tier1"
    /\ LET lang == current_key(t)
           entry == get_entry(cache, lang, key[t])
       IN /\ trace' = [trace EXCEPT ![t] = Append(@, Event("get_entry", lang))]
          /\ pc' = [pc EXCEPT ![t] = Tier1Arm(entry)]
          /\ IF Tier1Arm(entry) = "done"
             THEN result' = [result EXCEPT ![t] = StaticArm(entry.val.s)]
             ELSE UNCHANGED result
    /\ UNCHANGED <<tables, heap, CURRENT_LANG, lastLang, fn, key, args, guard,
                   is_fallback, new_state, seen>>

\* The events and the value of the Dynamic arm for locale key lang.
DynamicArm(f, lang, k, a) ==
    LET b == get_bundle(bundles, lang)
    IN IF ~b.some
       THEN [events |-> <<Event("get_bundle", lang)>>, val |-> None]
       ELSE [events |-> <<Event("get_bundle", lang), FormatEvent(lang, a)>>,
             val |-> InBundle(f, b.val, k, a)]

\* STEP 1, the Dynamic arm: bundles.get_bundle(current_key) and the bundle call.
Tier1Bundle(t) ==
    /\ pc[t] = "tier1_bundle"
    /\ LET r == DynamicArm(fn[t], current_key(t), key[t], args[t])
       IN /\ trace' = [trace EXCEPT ![t] = @ \o r.events]
          /\ IF r.val.some
             THEN /\ pc' = [pc EXCEPT ![t] = "done"]
                  /\ result' = [result EXCEPT ![t] = r.val]
             ELSE /\ pc' = [pc EXCEPT ![t] = "tier2"]
                  /\ UNCHANGED result
    /\ UNCHANGED <<tables, heap, CURRENT_LANG, lastLang, fn, key, args, guard,
                   is_fallback, new_state, seen>>

\* The events and the value of both arms for the fallback locale.
FallbackArms(f, k, a) ==
    LET entry == get_entry(cache, FALLBACK_LANG_KEY, k)
        e == <<Event("get_entry", FALLBACK_LANG_KEY)>>
    IN IF ~entry.some THEN [events |-> e, val |-> None]
       ELSE IF entry.val.tag = "Static"
       THEN [events |-> e, val |-> StaticArm(entry.val.s)]
       ELSE LET r == DynamicArm(f, FALLBACK_LANG_KEY, k, a)
            IN [events |-> e \o r.events, val |-> r.val]

\* Variant: the negation is missing.
EntersTier2Inverted(fb) == fb

\* Variant: STEP 2 is not guarded by is_fallback.
EntersTier2Always(fb) == TRUE

\* Whether STEP 2 is entered: `!is_fallback && ...`
EntersTier2(fb) == ~fb

\* Variant: a total miss returns the empty string.
EchoEmpty(k) == Some(Borrowed(""))

\* The last line: Cow::Borrowed(key)
EchoKey(k) == Some(Borrowed(k))

\* STEP 2 and the final Cow::Borrowed(key).
Tier2(t) ==
    /\ pc[t] = "tier2"
    /\ LET r == IF EntersTier2(is_fallback[t])
                THEN FallbackArms(fn[t], key[t], args[t])
                ELSE [events |-> <<>>, val |-> None]
       IN /\ trace' = [trace EXCEPT ![t] = @ \o r.events]
          /\ result' = [result EXCEPT ![t] =
                          IF r.val.some THEN r.val ELSE EchoKey(key[t])]
    /\ pc' = [pc EXCEPT ![t] = "done"]
    /\ UNCHANGED <<tables, heap, CURRENT_LANG, lastLang, fn, key, args, guard,
                   is_fallback, new_state, seen>>

\* The function returns: the guard is dropped with the other locals.
Return(t) ==
    /\ pc[t] = "done"
    /\ pc' = [pc EXCEPT ![t] = "idle"]
    /\ fn' = [fn EXCEPT ![t] = "none"]
    /\ key' = [key EXCEPT ![t] = ""]
    /\ args' = [args EXCEPT ![t] = None]
    /\ guard' = [guard EXCEPT ![t] = 0]
    /\ is_fallback' = [is_fallback EXCEPT ![t] = FALSE]
    /\ result' = [result EXCEPT ![t] = None]
    /\ trace' = [trace EXCEPT ![t] = <<>>]
    /\ seen' = [seen EXCEPT ![t] = None]
    /\ heap' = Collect(heap, CURRENT_LANG, guard')
    /\ UNCHANGED <<tables, CURRENT_LANG, lastLang, new_state>>

-----------------------------------------------------------------------------

Next ==
    \/ \E t \in threads, lang \in Langs : SetLangBuild(t, lang)
    \/ \E t \in threads : SetLangStore(t)
    \/ \E t \in threads : GetLang(t)
    \/ \E t \in threads : DropGuard(t)
    \/ \E t \in threads, k \in Keys : CallLookupStatic(t, k)
    \/ \E t \in threads, k \in Keys, a \in FluentArgs : CallLookupDynamic(t, k, a)
    \/ \E t \in threads : Compare(t)
    \/ \E t \in threads : Tier1Entry(t)
    \/ \E t \in threads : Tier1Bundle(t)
    \/ \E t \in threads : Tier2(t)
    \/ \E t \in threads : Return(t)

Spec == Init /\ [][Next]_vars

\* The tables generated from the resources of the locales L, each holding
\* both messages: a message without placeables is Static, one with placeables
\* is Dynamic.
GeneratedCache(L) ==
    [l \in L |->
        [k \in Keys |-> IF k = "greeting" THEN Static(StaticText(l, k)) ELSE Dynamic]]

GeneratedBundles(L) ==
    [l \in L |-> [k \in Keys |-> [value |-> Some(PatternOf(l, k))]]]

\* Two threads over generated tables that hold the fallback locale; the cache
\* and the bundle collection are injected separately and may differ in fr-FR.
InitConc ==
    /\ threads = AllThreads
    /\ \E Lc \in {{"en-US"}, TableLocales}, Lb \in {{"en-US"}, TableLocales} :
          /\ cache = GeneratedCache(Lc)
          /\ bundles = GeneratedBundles(Lb)
    /\ InitCommon

SpecConc == InitConc /\ [][Next]_vars

-----------------------------------------------------------------------------
(* Vocabulary of the properties, read off the tables themselves *)

Resolving(t) == fn[t] \in {"lookup_static", "lookup_dynamic"}

\* The call of t has computed its return value.
Finished(t) == Resolving(t) /\ pc[t] = "done"

\* The LocaleState the guard of t refers to.
Snap(t) == heap[guard[t]]

IndexHas(lang, k) == lang \in DOMAIN cache /\ k \in DOMAIN cache[lang]

HasStatic(lang, k) == IndexHas(lang, k) /\ cache[lang][k].tag = "Static"

HasDynamic(lang, k) == IndexHas(lang, k) /\ cache[lang][k].tag = "Dynamic"

\* The engine of lang holds a message k with a value pattern.
HasPattern(lang, k) ==
    /\ lang \in DOMAIN bundles
    /\ k \in DOMAIN bundles[lang]
    /\ bundles[lang][k].value.some

\* The arguments the engine is given by the call of t.
EngineArgs(t) == IF fn[t] = "lookup_static" THEN None ELSE Some(args[t].val)

\* What the engine of lang yields for the call of t: the formatted pattern,
\* or nothing when the engine, the message or its value is absent.
EngineYields(t, lang) ==
    IF HasPattern(lang, key[t])
    THEN Some(format_pattern(bundles[lang][key[t]].value.val, EngineArgs(t)))
    ELSE None

\* What the two-branch logic yields for the call of t on locale key lang.
TierYields(t, lang) ==
    IF HasStatic(lang, key[t]) THEN Some(Borrowed(cache[lang][key[t]].s))
    ELSE IF HasDynamic(lang, key[t]) THEN EngineYields(t, lang)
    ELSE None

EventsOf(t, ops) == {i \in 1..Len(trace[t]) : trace[t][i].op \in ops}

EngineOps == {"get_bundle", "format"}

-----------------------------------------------------------------------------
\* C1: on a Static entry for (current locale key, key) both lookup_static and
\* lookup_dynamic return exactly its string, whatever the arguments and the
\* fallback locale hold, and neither get_bundle nor the formatting is called.
C1_StaticHitReturnsString ==
    \A t \in threads :
        Finished(t) /\ HasStatic(Snap(t).key, key[t]) =>
            /\ result[t].some
            /\ result[t].val.str = cache[Snap(t).key][key[t]].s
            /\ EventsOf(t, EngineOps) = {}

\* A lookup_dynamic with an argument hit a Static entry of fr-FR while the
\* fallback locale holds a Dynamic entry with a pattern for the same key.
C1_Witness ==
    \E t \in threads :
        /\ Finished(t)
        /\ fn[t] = "lookup_dynamic"
        /\ args[t].val # {}
        /\ Snap(t).key = "fr-FR"
        /\ HasStatic("fr-FR", key[t])
        /\ HasDynamic(FALLBACK_LANG_KEY, key[t])
        /\ HasPattern(FALLBACK_LANG_KEY, key[t])
        /\ HasPattern("fr-FR", key[t])

\* C2: every step of a running call can be taken, the call returns a string,
\* and when neither the current tier nor the fallback tier yields a value the
\* string is the key itself.
C2_TotalAndEchoesKey ==
    \A t \in threads :
        /\ pc[t] = "cmp" => ENABLED Compare(t)
        /\ pc[t] = "tier1" => ENABLED Tier1Entry(t)
        /\ pc[t] = "tier1_bundle" => ENABLED Tier1Bundle(t)
        /\ pc[t] = "tier2" => ENABLED Tier2(t)
        /\ Finished(t) =>
            /\ ENABLED Return(t)
            /\ result[t].some
            /\ result[t].val.cow \in {"Borrowed", "Owned"}
            /\ (/\ ~TierYields(t, Snap(t).key).some
                /\ ~TierYields(t, FALLBACK_LANG_KEY).some)
               => result[t].val.str = key[t]

\* The key was echoed after a Dynamic entry without an engine in the current
\* locale and a Dynamic entry whose message has no value in the fallback.
C2_Witness ==
    \E t \in threads :
        /\ Finished(t)
        /\ Snap(t).key = "fr-FR"
        /\ HasDynamic("fr-FR", key[t])
        /\ "fr-FR" \notin DOMAIN bundles
        /\ HasDynamic(FALLBACK_LANG_KEY, key[t])
        /\ FALLBACK_LANG_KEY \in DOMAIN bundles
        /\ key[t] \in DOMAIN bundles[FALLBACK_LANG_KEY]
        /\ ~HasPattern(FALLBACK_LANG_KEY, key[t])
        /\ result[t].val.str = key[t]

\* C3: when the current key is not the fallback key and Tier 1 yields
\* nothing, the result is what the same two-branch logic yields on the
\* fallback locale: the Static string, or the value of the fallback engine;
\* the key is echoed only if that yields nothing either.
C3_FallbackTier ==
    \A t \in threads :
        (/\ Finished(t)
         /\ Snap(t).key # FALLBACK_LANG_KEY
         /\ ~TierYields(t, Snap(t).key).some) =>
            /\ HasStatic(FALLBACK_LANG_KEY, key[t]) =>
                 result[t].val.str = cache[FALLBACK_LANG_KEY][key[t]].s
            /\ (HasDynamic(FALLBACK_LANG_KEY, key[t])
                  /\ EngineYields(t, FALLBACK_LANG_KEY).some) =>
                 result[t] = EngineYields(t, FALLBACK_LANG_KEY)
            /\ result[t].val.str = key[t] =>
                 ~TierYields(t, FALLBACK_LANG_KEY).some

\* current = fr-FR without an entry for "greeting", en-US has Static("Hello"):
\* the call returned "Hello".
C3_Witness ==
    \E t \in threads :
        /\ Finished(t)
        /\ key[t] = "greeting"
        /\ Snap(t).key = "fr-FR"
        /\ ~IndexHas("fr-FR", "greeting")
        /\ HasStatic(FALLBACK_LANG_KEY, "greeting")
        /\ result[t].val.str = "Hello"

\* C4: on a Dynamic entry of the current locale whose engine yields a value,
\* that value is returned from Tier 1, formatted with the caller's arguments
\* in lookup_dynamic and with none in lookup_static, and the only calls made
\* are the index, bundle and formatting calls on the current locale.
C4_DynamicHit ==
    \A t \in threads :
        (/\ Finished(t)
         /\ HasDynamic(Snap(t).key, key[t])
         /\ HasPattern(Snap(t).key, key[t])) =>
            LET lang == Snap(t).key
                pattern == bundles[lang][key[t]].value.val
            IN /\ result[t] = Some(format_pattern(pattern,
                                 IF fn[t] = "lookup_dynamic" THEN args[t] ELSE None))
               /\ trace[t] = <<Event("cmp", lang), Event("get_entry", lang),
                               Event("get_bundle", lang),
                               FormatEvent(lang, IF fn[t] = "lookup_dynamic"
                                                 THEN args[t] ELSE None)>>

\* current = en-US has Dynamic for "welcome" and the call with {name: Alice}
\* returned "Welcome, Alice!".
C4_Witness ==
    \E t \in threads :
        /\ Finished(t)
        /\ fn[t] = "lookup_dynamic"
        /\ key[t] = "welcome"
        /\ args[t].val = {<<"name", "Alice">>}
        /\ Snap(t).key = "en-US"
        /\ HasDynamic("en-US", "welcome")
        /\ result[t].val.str = "Welcome, Alice!"

\* C5: when the active key is the fallback key, one call queries the index
\* at most once and the bundles at most once, and a Tier-1 miss echoes the key.
C5_NoSecondPassOnFallback ==
    \A t \in threads :
        (Finished(t) /\ Snap(t).key = FALLBACK_LANG_KEY) =>
            /\ Cardinality(EventsOf(t, {"get_entry"})) <= 1
            /\ Cardinality(EventsOf(t, {"get_bundle"})) <= 1
            /\ ~TierYields(t, FALLBACK_LANG_KEY).some =>
                 result[t] = Some(Borrowed(key[t]))

\* With en-US active, a Dynamic entry whose engine has no such message: the
\* index and the bundles were queried once each and the key was echoed.
C5_Witness ==
    \E t \in threads :
        /\ Finished(t)
        /\ Snap(t).key = FALLBACK_LANG_KEY
        /\ HasDynamic(FALLBACK_LANG_KEY, key[t])
        /\ FALLBACK_LANG_KEY \in DOMAIN bundles
        /\ key[t] \notin DOMAIN bundles[FALLBACK_LANG_KEY]
        /\ Cardinality(EventsOf(t, {"get_entry"})) = 1
        /\ Cardinality(EventsOf(t, {"get_bundle"})) = 1
        /\ result[t].val.str = key[t]

-----------------------------------------------------------------------------
\* The events of Tier 1 in the trace of t: the comparison, the first index
\* query, and the bundle query and formatting that directly follow it.
Tier1Events(t) ==
    {i \in 1..Len(trace[t]) :
        \/ i <= 2
        \/ i = 3 /\ trace[t][3].op = "get_bundle"
        \/ i = 4 /\ trace[t][3].op = "get_bundle" /\ trace[t][4].op = "format"}

\* C6: a call that starts after set_lang(L) has stored, and before a later
\* set_lang stores, holds the snapshot {L, L's string}, and its comparison
\* and Tier-1 queries use L's key; get_lang returns that snapshot.
C6_SetLangVisible ==
    \A t \in threads :
        guard[t] # 0 =>
            /\ seen[t].some
            /\ Snap(t).id = seen[t].val
            /\ Snap(t).key = to_string(seen[t].val)
            /\ \A i \in Tier1Events(t) : trace[t][i].lang = to_string(seen[t].val)

\* A call that started after set_lang(fr-FR) stored has queried the index
\* with "fr-FR" while no other set_lang has stored since.
C6_Witness ==
    \E t \in threads :
        /\ Resolving(t)
        /\ Len(trace[t]) >= 2
        /\ trace[t][2] = Event("get_entry", "fr-FR")
        /\ seen[t].val = LangId("fr", "FR")
        /\ lastLang = LangId("fr", "FR")
        /\ guard[t] = CURRENT_LANG

\* C7: the key compared with the fallback key, the key of the Tier-1 index
\* query and the key of the Tier-1 bundle query of one call are the key of
\* the one snapshot its guard holds, whatever set_lang calls overlap it, and
\* is_fallback is that key's comparison.
C7_OneSnapshotPerCall ==
    \A t \in threads :
        (Resolving(t) /\ Len(trace[t]) >= 1) =>
            /\ \A i \in Tier1Events(t) : trace[t][i].lang = Snap(t).key
            /\ is_fallback[t] = (Snap(t).key = FALLBACK_LANG_KEY)
            /\ \E l \in Langs : Snap(t) = LocaleState(l, to_string(l))

\* A call has made its Tier-1 index and bundle queries on the snapshot it
\* loaded although another thread's set_lang replaced the active state after
\* the call's comparison.
C7_Witness ==
    \E t \in threads :
        /\ Resolving(t)
        /\ Len(trace[t]) >= 3
        /\ trace[t][3].op = "get_bundle"
        /\ guard[t] # CURRENT_LANG
        /\ heap[CURRENT_LANG].key # Snap(t).key
        /\ Snap(t).key = "fr-FR"
        /\ heap[CURRENT_LANG].key = "en-US"

\* Every state a reader holds, and the active one, is the pair of one id and
\* that id's own string; the active state is that of the last store.
C8_WholeSnapshots ==
    /\ \A t \in threads :
          guard[t] # 0 =>
              \E l \in Langs : Snap(t) = LocaleState(l, to_string(l))
    /\ \E l \in Langs : heap[CURRENT_LANG] = LocaleState(l, to_string(l))
    /\ heap[CURRENT_LANG] = LocaleState(lastLang, to_string(lastLang))

\* A step leaves the state behind every guard that stays held as it was.
C8_HeldUnchanged ==
    \A t \in threads :
        (guard[t] # 0 /\ guard'[t] = guard[t]) => heap'[guard[t]] = heap[guard[t]]

\* C8: under any interleaving of set_lang and get_lang, a snapshot is whole
\* (the initial en-US state or the id and key of one set_lang), a snapshot a
\* reader holds is not changed by later writes, and the active snapshot is
\* the one of the last write that took effect.
C8_AtomicSnapshots == [](C8_WholeSnapshots) /\ [][C8_HeldUnchanged]_vars

\* A reader still holds the fr-FR snapshot after a later set_lang(de) took
\* effect, while the other thread is about to store once more.
C8_Witness ==
    \E t \in threads, u \in threads :
        /\ t # u
        /\ guard[t] # 0
        /\ guard[t] # CURRENT_LANG
        /\ Snap(t) = LocaleState(LangId("fr", "FR"), "fr-FR")
        /\ heap[CURRENT_LANG] = LocaleState(LangId("de", ""), "de")
        /\ pc[u] = "store"

-----------------------------------------------------------------------------
\* The next tier's outcome for the call of t after Tier 1 yielded nothing.
AfterTier1(t) ==
    IF Snap(t).key # FALLBACK_LANG_KEY /\ TierYields(t, FALLBACK_LANG_KEY).some
    THEN TierYields(t, FALLBACK_LANG_KEY)
    ELSE Some(Borrowed(key[t]))

\* The Tier-1 formatting of the call of t pushes an error.
Tier1FormatFails(t) ==
    /\ HasDynamic(Snap(t).key, key[t])
    /\ HasPattern(Snap(t).key, key[t])
    /\ FormatErrors(bundles[Snap(t).key][key[t]].value.val, EngineArgs(t)) > 0

-----------------------------------------------------------------------------
\* C10: on a Static entry of the current locale the call returns the table's
\* string borrowed, never an owned copy, and the only calls it made are the
\* comparison and the one index query: nothing on that path produces a string.
C10_StaticHitBorrowed ==
    \A t \in threads :
        (Finished(t) /\ HasStatic(Snap(t).key, key[t])) =>
            /\ result[t].val.cow = "Borrowed"
            /\ trace[t] = <<Event("cmp", Snap(t).key),
                            Event("get_entry", Snap(t).key)>>

\* A lookup_static returned borrowed from a Static entry of a locale whose
\* engine also holds a pattern with a placeable for the key.
C10_Witness ==
    \E t \in threads :
        /\ Finished(t)
        /\ fn[t] = "lookup_static"
        /\ key[t] = "welcome"
        /\ HasStatic(Snap(t).key, "welcome")
        /\ HasPattern(Snap(t).key, "welcome")
        /\ result[t] = Some(Borrowed(StaticText(Snap(t).key, "welcome")))

====
